---- MODULE Spec2Model ----
(***************************************************************************)
(* A model of gerr (include/gerr/gerr.hpp): the error-chain nodes, the     *)
(* construction functions New / Wrap / Make / E(...), and the inspection   *)
(* functions As / Is / AsCode / IsCode / String / Code; and of the Try     *)
(* wrapper built on it (examples/simpletry/try.hpp).                       *)
(*                                                                         *)
(* An Error is a std::shared_ptr<IError>.  The model keeps every node that *)
(* was ever allocated in `heap`; a node's identity is its index in the     *)
(* heap and the null pointer is 0.                                         *)
(***************************************************************************)
EXTENDS Integers, Sequences, FiniteSets

VARIABLES
  heap,       \* the nodes allocated so far (index = identity of the node)
  singleton,  \* the function-local statics of the parameterless E()
  last,       \* the last construction call: its name, arguments and result
  call,       \* the last inspection call: its name, arguments and result
  tries,      \* the Try<int> objects of the caller
  tryCall,    \* the last call on a Try: its name, arguments, object before
  buffer      \* the char array of a caller that builds messages in place

vars == <<heap, singleton, last, call, tries, tryCall, buffer>>

----------------------------------------------------------------------------
(* Bounds of the model and the inputs the calls are drawn from.            *)

\* The largest number of nodes a run allocates.
MaxNodes == 2

\* Error codes passed to New / Wrap (0 is "no code").
Codes == {0, -12}

\* Codes asked for by AsCode / IsCode.
QueryCodes == {0, -12, 1000001}

\* Default codes passed to Code.
DefaultCodes == {-1, 0, -12}

----------------------------------------------------------------------------
(* Pointers and strings.                                                   *)

\* nullptr of gerr::Error.
Null == 0

\* A char const* is either nullptr or points to a C string.
NullStr == <<>>
CStr(s) == <<s>>

\* C strings passed as `char const* msg`.
RawMsgs == {NullStr, CStr(""), CStr("fail")}

\* The texts a caller writes into its char array, and the array before
\* anything was written.
BufferTexts == {"fail", "retry"}
NoBuffer == [live |-> TRUE, text |-> ""]

\* A char const* into the caller's array: what it points to is `text` for
\* as long as the array holds it.
BufferPtr(text) == <<text, "buffer">>

\* Format strings with their arguments.  A format string is the sequence
\* of its literal pieces and replacement fields "{}"; an argument is an
\* int <<"d", i>> or a string <<"s", s>>.
FmtCalls ==
  { [fmt |-> <<"{}">>, args |-> << <<"s", "">> >>],
    [fmt |-> <<"argc(", "{}", ") != 2">>, args |-> << <<"d", 3>> >>] }

Digit(d) ==
  CASE d = 0 -> "0" [] d = 1 -> "1" [] d = 2 -> "2" [] d = 3 -> "3"
    [] d = 4 -> "4" [] d = 5 -> "5" [] d = 6 -> "6" [] d = 7 -> "7"
    [] d = 8 -> "8" [] d = 9 -> "9"

RECURSIVE NatToString(_)
NatToString(n) ==
  IF n < 10 THEN Digit(n) ELSE NatToString(n \div 10) \o Digit(n % 10)

\* std::to_string(int): the decimal digits, with a leading '-' when negative.
to_string(i) == IF i < 0 THEN "-" \o NatToString(-i) ELSE NatToString(i)

FormatArg(a) == IF a[1] = "d" THEN to_string(a[2]) ELSE a[2]

\* fmt::format(formatStr, args...): the literal text, each "{}" replaced by
\* the next argument.
RECURSIVE Format(_, _)
Format(fmt, args) ==
  IF fmt = <<>> THEN ""
  ELSE IF Head(fmt) = "{}"
       THEN FormatArg(Head(args)) \o Format(Tail(fmt), Tail(args))
       ELSE Head(fmt) \o Format(Tail(fmt), args)

----------------------------------------------------------------------------
(* The node classes.  Every class derives directly from details::IError.   *)
(* A node record holds the data members of its class; members a class does *)
(* not have keep their default.                                            *)

ErrArgumentNegCode == 1000001
ErrLERandNum2Code == 1000002

\* LERandErrorContext values; the value-initialised one is NoContext.
NoContext == [randNum1 |-> 0, randNum2 |-> 0]
Contexts == { [randNum1 |-> 1, randNum2 |-> 2], [randNum1 |-> 3, randNum2 |-> 0] }

PlainClasses == {"ErrArgumentZero", "ErrArgumentNeg"}
ContextClasses == {"ErrLERandNum1", "ErrLERandNum2"}
DetailClasses ==
  { "RawStrMessageError", "MessageError", "CodeRawStrMessageError",
    "CodeMessageError", "CodeSubError", "RawStrMessageSubError",
    "MessageSubError", "CodeRawStrMessageSubError", "CodeMessageSubError" }
Classes == DetailClasses \cup PlainClasses \cup ContextClasses

Node(cls, code, raw, str, cause, ctx) ==
  [ cls |-> cls, errorCode |-> code, rawMessage |-> raw, strMessage |-> str,
    cause |-> cause, context |-> ctx ]

RawStrMessageError(message) ==
  Node("RawStrMessageError", 0, message, "", Null, NoContext)
MessageError(message) ==
  Node("MessageError", 0, NullStr, message, Null, NoContext)
CodeRawStrMessageError(code, message) ==
  Node("CodeRawStrMessageError", code, message, "", Null, NoContext)
CodeMessageError(code, message) ==
  Node("CodeMessageError", code, NullStr, message, Null, NoContext)
\* A CodeSubError constructor that leaves causeError_ unset.
CodeSubError_DropsCause(code, cause) ==
  Node("CodeSubError", code, NullStr, "", Null, NoContext)

CodeSubError(code, cause) ==
  Node("CodeSubError", code, NullStr, "", cause, NoContext)
RawStrMessageSubError(message, cause) ==
  Node("RawStrMessageSubError", 0, message, "", cause, NoContext)
MessageSubError(message, cause) ==
  Node("MessageSubError", 0, NullStr, message, cause, NoContext)
CodeRawStrMessageSubError(code, message, cause) ==
  Node("CodeRawStrMessageSubError", code, message, "", cause, NoContext)
CodeMessageSubError(code, message, cause) ==
  Node("CodeMessageSubError", code, NullStr, message, cause, NoContext)

\* DEFINE_ERROR / DEFINE_CODE_ERROR classes: the only member is the cause.
PlainErrorNode(cls, cause) == Node(cls, 0, NullStr, "", cause, NoContext)

\* DEFINE_CONTEXT_ERROR / DEFINE_CODE_CONTEXT_ERROR classes: the context,
\* the formatted message and the cause.
ContextErrorNode(cls, ctx, msg, cause) == Node(cls, 0, NullStr, msg, cause, ctx)

\* The message format of the context classes, rendered from a context.
ContextFormat(cls) ==
  IF cls = "ErrLERandNum1"
  THEN <<"Random num is illegal, rand val1: ", "{}", ", rand val2: ", "{}">>
  ELSE <<"random num is illegal, rand val1: ", "{}", ", rand val2: ", "{}">>

ContextMessage(cls, context) ==
  Format(ContextFormat(cls),
         << <<"d", context.randNum1>>, <<"d", context.randNum2>> >>)

(* The virtual functions of IError, as each class overrides them. *)

CodeOf(n) ==
  CASE n.cls \in { "CodeRawStrMessageError", "CodeMessageError", "CodeSubError",
                   "CodeRawStrMessageSubError", "CodeMessageSubError" }
         -> n.errorCode
    [] n.cls = "ErrArgumentNeg" -> ErrArgumentNegCode
    [] n.cls = "ErrLERandNum2" -> ErrLERandNum2Code
    [] OTHER -> 0

MessageOf(n) ==
  CASE n.cls \in { "RawStrMessageError", "CodeRawStrMessageError",
                   "RawStrMessageSubError", "CodeRawStrMessageSubError" }
         -> n.rawMessage
    [] n.cls \in { "MessageError", "CodeMessageError", "MessageSubError",
                   "CodeMessageSubError" } \cup ContextClasses
         -> CStr(n.strMessage)
    [] n.cls = "ErrArgumentZero" -> CStr("Argument is zero")
    [] n.cls = "ErrArgumentNeg" -> CStr("Argument is negative")
    [] OTHER -> NullStr

CauseOf(n) ==
  CASE n.cls \in { "CodeSubError", "RawStrMessageSubError", "MessageSubError",
                   "CodeRawStrMessageSubError", "CodeMessageSubError" }
                 \cup PlainClasses \cup ContextClasses
         -> n.cause
    [] OTHER -> Null

----------------------------------------------------------------------------
(* Construction.  A store is the heap together with the function-local     *)
(* statics; every construction function maps a store (and its arguments)   *)
(* to the new store and the Error it returns.                              *)

Store == [heap |-> heap, singleton |-> singleton]

\* gerr::Make<ErrType>(args...): std::make_shared of a new node.
Make(st, node) ==
  [ heap |-> Append(st.heap, node), singleton |-> st.singleton,
    ret |-> Len(st.heap) + 1 ]

\* New(char const* msg)
New(st, msg) == Make(st, RawStrMessageError(msg))

\* New(formatStr, args...)
NewFmt(st, formatStr, args) == Make(st, MessageError(Format(formatStr, args)))

\* New(int code, char const* msg)
NewCode(st, code, msg) == Make(st, CodeRawStrMessageError(code, msg))

\* New(int code, formatStr, args...)
NewCodeFmt(st, code, formatStr, args) ==
  Make(st, CodeMessageError(code, Format(formatStr, args)))

\* A Wrap(err, msg) that does not link the new node to err.
Wrap_DropsCause(st, err, msg) == Make(st, RawStrMessageSubError(msg, Null))

\* Wrap(Error err, char const* msg)
Wrap(st, err, msg) == Make(st, RawStrMessageSubError(msg, err))

\* Wrap(Error err, formatStr, args...)
WrapFmt(st, err, formatStr, args) ==
  Make(st, MessageSubError(Format(formatStr, args), err))

\* A Wrap(err, code) that hands the new node itself over as the cause.
WrapCode_SelfCause(st, err, code) ==
  Make(st, CodeSubError(code, Len(st.heap) + 1))

\* Wrap(Error err, int code)
WrapCode(st, err, code) == Make(st, CodeSubError(code, err))

\* Wrap(Error err, int code, char const* msg)
WrapCodeMsg(st, err, code, msg) ==
  Make(st, CodeRawStrMessageSubError(code, msg, err))

\* Wrap(Error err, int code, formatStr, args...)
WrapCodeFmt(st, err, code, formatStr, args) ==
  Make(st, CodeMessageSubError(code, Format(formatStr, args), err))

\* An E() that makes a node on every call.
E_MakesEveryCall(st, cls) ==
  LET r == Make(st, PlainErrorNode(cls, Null))
  IN  [r EXCEPT !.singleton = [st.singleton EXCEPT ![cls] = r.ret]]

\* E() of DEFINE_ERROR / DEFINE_CODE_ERROR: the static is made on the first
\* call and returned by every call.
E(st, cls) ==
  IF st.singleton[cls] = Null
  THEN LET r == Make(st, PlainErrorNode(cls, Null))
       IN  [r EXCEPT !.singleton = [st.singleton EXCEPT ![cls] = r.ret]]
  ELSE [heap |-> st.heap, singleton |-> st.singleton, ret |-> st.singleton[cls]]

\* E(cause) of DEFINE_ERROR / DEFINE_CODE_ERROR
ECause(st, cls, cause) == Make(st, PlainErrorNode(cls, cause))

\* An E(context) that leaves the context member value-initialised.
EContext_DropsContext(st, cls, context) ==
  Make(st, ContextErrorNode(cls, NoContext, ContextMessage(cls, context), Null))

\* E(ContextType const& context) of DEFINE_CONTEXT_ERROR /
\* DEFINE_CODE_CONTEXT_ERROR
EContext(st, cls, context) ==
  Make(st, ContextErrorNode(cls, context, ContextMessage(cls, context), Null))

----------------------------------------------------------------------------
(* The state machine of construction: a program that holds every Error it  *)
(* has built and calls the construction functions in any order.            *)

Handles(h) == 1 .. Len(h)
Errors(h) == {Null} \cup Handles(h)

NoCall ==
  [ op |-> "none", err |-> Null, shape |-> "", code |-> 0, node |-> Null,
    flag |-> FALSE, int |-> 0, str |-> "", visited |-> 0 ]
NoLast == [op |-> "none", err |-> Null, context |-> NoContext, ret |-> Null]

\* The Try objects a caller declares, and a Try call record.
TryObjs == {"t", "u"}
NoTry == [live |-> FALSE, first |-> 0, second |-> Null]
NoTryCall ==
  [ op |-> "none", obj |-> "t", src |-> "t", val |-> 0, err |-> Null,
    was |-> NoTry ]

Init ==
  /\ heap = <<>>
  /\ singleton = [c \in PlainClasses |-> Null]
  /\ last = NoLast
  /\ call = NoCall
  /\ tries = [o \in TryObjs |-> NoTry]
  /\ tryCall = NoTryCall
  /\ buffer = NoBuffer

\* The construction call `op` with the Error argument `err` and the context
\* argument `context` took the store to r.
BuiltWith(op, err, context, r) ==
  /\ Len(r.heap) <= MaxNodes
  /\ heap' = r.heap
  /\ singleton' = r.singleton
  /\ last' = [op |-> op, err |-> err, context |-> context, ret |-> r.ret]
  /\ UNCHANGED <<call, tries, tryCall, buffer>>

\* The construction call `op` with the Error argument `err` took the store to r.
Built(op, err, r) == BuiltWith(op, err, NoContext, r)

DoNew == \E msg \in RawMsgs : Built("New", Null, New(Store, msg))

DoNewFmt ==
  \E f \in FmtCalls : Built("NewFmt", Null, NewFmt(Store, f.fmt, f.args))

DoNewCode ==
  \E code \in Codes, msg \in RawMsgs :
    Built("NewCode", Null, NewCode(Store, code, msg))

DoNewCodeFmt ==
  \E code \in Codes, f \in FmtCalls :
    Built("NewCodeFmt", Null, NewCodeFmt(Store, code, f.fmt, f.args))

DoWrap ==
  \E err \in Errors(heap), msg \in RawMsgs :
    Built("Wrap", err, Wrap(Store, err, msg))

DoWrapFmt ==
  \E err \in Errors(heap), f \in FmtCalls :
    Built("WrapFmt", err, WrapFmt(Store, err, f.fmt, f.args))

DoWrapCode ==
  \E err \in Errors(heap), code \in Codes :
    Built("WrapCode", err, WrapCode(Store, err, code))

DoWrapCodeMsg ==
  \E err \in Errors(heap), code \in Codes, msg \in RawMsgs :
    Built("WrapCodeMsg", err, WrapCodeMsg(Store, err, code, msg))

DoWrapCodeFmt ==
  \E err \in Errors(heap), code \in Codes, f \in FmtCalls :
    Built("WrapCodeFmt", err, WrapCodeFmt(Store, err, code, f.fmt, f.args))

DoE == \E cls \in PlainClasses : Built("E", Null, E(Store, cls))

DoECause ==
  \E cls \in PlainClasses, cause \in Errors(heap) :
    Built("ECause", cause, ECause(Store, cls, cause))

DoEContext ==
  \E cls \in ContextClasses, context \in Contexts :
    BuiltWith("EContext", Null, context, EContext(Store, cls, context))

Next ==
  \/ DoNew
  \/ DoNewFmt
  \/ DoNewCode
  \/ DoNewCodeFmt
  \/ DoWrap
  \/ DoWrapFmt
  \/ DoWrapCode
  \/ DoWrapCodeMsg
  \/ DoWrapCodeFmt
  \/ DoE
  \/ DoECause
  \/ DoEContext

Spec == Init /\ [][Next]_vars

----------------------------------------------------------------------------
(* The typed variants on their own: a program that uses the classes of     *)
(* examples/defineerr/myapi.hpp through every public member the macros     *)
(* give them.                                                              *)

\* E(ContextType&& context): the message is formatted first; `context` is
\* a named reference, so Make copies it into the node.
EContextMove(st, cls, context) ==
  LET tempMsg == ContextMessage(cls, context)
  IN  Make(st, ContextErrorNode(cls, context, tempMsg, Null))

\* The constructors of a context class, by the types of their arguments
\* before the private tag.
ContextCtorArgs ==
  { <<"ContextType", "string">>, <<"Error", "ContextType", "string">> }

\* E(cause, context): the four overloads hand Make the cause and the
\* formatted message, and not the context.  No constructor takes these
\* arguments (LERandErrorContext cannot be made from an Error), so the
\* call makes no node.
ECauseContext(st, cls, cause, context) ==
  LET tempMsg == ContextMessage(cls, context)
      args == <<"Error", "string">>
  IN  IF args \in ContextCtorArgs
      THEN Make(st, ContextErrorNode(cls, NoContext, tempMsg, cause))
      ELSE [heap |-> st.heap, singleton |-> st.singleton, ret |-> Null]

\* ContextType& Context(): the reference to the context member, read ...
Context(n) == n.context

\* ... and assigned through.
ContextAssign(n, context) == [n EXCEPT !.context = context]

DoEContextMove ==
  \E cls \in ContextClasses, context \in Contexts :
    BuiltWith("EContextMove", Null, context, EContextMove(Store, cls, context))

DoECauseContext ==
  \E cls \in ContextClasses, cause \in Errors(heap), context \in Contexts :
    BuiltWith("ECauseContext", cause, context,
              ECauseContext(Store, cls, cause, context))

\* As<V>(err)->Context() = context, on a node the caller holds.
DoContextAssign ==
  \E n \in Handles(heap), context \in Contexts :
    /\ heap[n].cls \in ContextClasses
    /\ heap' = [heap EXCEPT ![n] = ContextAssign(heap[n], context)]
    /\ last' = [op |-> "ContextAssign", err |-> n, context |-> context,
                ret |-> n]
    /\ UNCHANGED <<singleton, call, tries, tryCall, buffer>>

NextTyped ==
  \/ DoE
  \/ DoECause
  \/ DoEContext
  \/ DoEContextMove
  \/ DoECauseContext
  \/ DoContextAssign

SpecTyped == Init /\ [][NextTyped]_vars

----------------------------------------------------------------------------
(* Messages in a caller's buffer.  The RawStr classes keep the char const* *)
(* they are given, not a copy of the text, so what Message() returns is    *)
(* whatever the caller's array holds at the time it is read.               *)

\* The text of a released array as a later read finds it: the read is
\* undefined, and may find the old bytes or any others.
Garbage == BufferTexts \cup {"", "\\?"}

\* The heap after the bytes of the caller's array became `text`: every
\* node whose errorMessage_ points into the array reads the new bytes.
BufferHolds(h, text) ==
  [ n \in DOMAIN h |->
      IF Len(h[n].rawMessage) = 2
      THEN [h[n] EXCEPT !.rawMessage = BufferPtr(text)]
      ELSE h[n] ]

\* New(buf), New(code, buf), Wrap(err, buf), Wrap(err, code, buf) with the
\* caller's array as the message.
DoNewBuffer ==
  /\ buffer.live
  /\ Built("New", Null, New(Store, BufferPtr(buffer.text)))

DoNewCodeBuffer ==
  /\ buffer.live
  /\ \E code \in Codes :
       Built("NewCode", Null, NewCode(Store, code, BufferPtr(buffer.text)))

DoWrapBuffer ==
  /\ buffer.live
  /\ \E err \in Errors(heap) :
       Built("Wrap", err, Wrap(Store, err, BufferPtr(buffer.text)))

DoWrapCodeMsgBuffer ==
  /\ buffer.live
  /\ \E err \in Errors(heap), code \in Codes :
       Built("WrapCodeMsg", err,
             WrapCodeMsg(Store, err, code, BufferPtr(buffer.text)))

\* The caller changed the array and what the nodes point to with it.
BufferChanged(op, b) ==
  /\ buffer.live
  /\ buffer' = b
  /\ heap' = BufferHolds(heap, b.text)
  /\ last' = [NoLast EXCEPT !.op = op]
  /\ UNCHANGED <<singleton, call, tries, tryCall>>

\* The caller writes another text into the array (snprintf, strcpy).
DoBufferWrite ==
  \E text \in BufferTexts :
    BufferChanged("BufferWrite", [live |-> TRUE, text |-> text])

\* The array goes out of scope or is freed; the nodes keep the pointer.
DoBufferRelease ==
  \E text \in Garbage :
    BufferChanged("BufferRelease", [live |-> FALSE, text |-> text])

NextBuffer ==
  \/ DoNewBuffer
  \/ DoNewCodeBuffer
  \/ DoWrapBuffer
  \/ DoWrapCodeMsgBuffer
  \/ DoBufferWrite
  \/ DoBufferRelease

SpecBuffer == Init /\ [][NextBuffer]_vars

----------------------------------------------------------------------------
(* Inspection.  Each function takes the heap and an Error (a handle or     *)
(* Null) and walks the chain through Cause().                              *)

\* std::dynamic_pointer_cast<ExpectErr>(p): every node class is a leaf
\* below IError, so the cast succeeds exactly on nodes of the class itself.
DynamicPointerCast(ExpectErr, n) == n.cls = ExpectErr

\* A loop of As that keeps walking and returns the deepest match.
RECURSIVE AsLoop_Deepest(_, _, _)
AsLoop_Deepest(h, ExpectErr, p) ==
  IF p = Null THEN Null
  ELSE LET deeper == AsLoop_Deepest(h, ExpectErr, CauseOf(h[p]))
       IN  IF deeper # Null THEN deeper
           ELSE IF DynamicPointerCast(ExpectErr, h[p]) THEN p ELSE Null

\* The for loop of As, from node p on.
RECURSIVE AsLoop(_, _, _)
AsLoop(h, ExpectErr, p) ==
  IF p = Null THEN Null
  ELSE IF DynamicPointerCast(ExpectErr, h[p]) THEN p
       ELSE AsLoop(h, ExpectErr, CauseOf(h[p]))

As(h, ExpectErr, err) == IF err = Null THEN Null ELSE AsLoop(h, ExpectErr, err)

\* An Is that takes the null pointer for a match.
Is_TrueForNull(h, ExpectErr, err) == err = Null \/ As(h, ExpectErr, err) # Null

Is(h, ExpectErr, err) == As(h, ExpectErr, err) # Null

\* The for loop of AsCode, from node p on.
RECURSIVE AsCodeLoop(_, _, _)
AsCodeLoop(h, code, p) ==
  IF p = Null THEN Null
  ELSE IF CodeOf(h[p]) = code THEN p
       ELSE AsCodeLoop(h, code, CauseOf(h[p]))

\* An AsCode that looks at the outermost node only.
AsCode_TopOnly(h, code, err) ==
  IF err = Null THEN Null
  ELSE IF CodeOf(h[err]) = code THEN err ELSE Null

AsCode(h, code, err) == IF err = Null THEN Null ELSE AsCodeLoop(h, code, err)

IsCode(h, code, err) == AsCode(h, code, err) # Null

\* A segment that prints the code even when it is 0.
StringSegment_AlwaysCode(n) ==
  LET c == CodeOf(n)
      msg == MessageOf(n)
      hasMsg == msg # NullStr /\ msg[1] # ""
  IN  IF hasMsg THEN to_string(c) \o ":" \o msg[1]
      ELSE IF c = 0 THEN "<EMPTY>"
      ELSE to_string(c)

\* A segment without the "<EMPTY>" mark of a node with no code and no message.
StringSegment_NoEmptyMark(n) ==
  LET c == CodeOf(n)
      msg == MessageOf(n)
      hasMsg == msg # NullStr /\ msg[1] # ""
  IN  IF c # 0 /\ hasMsg THEN to_string(c) \o ":" \o msg[1]
      ELSE IF c = 0 /\ ~hasMsg THEN ""
      ELSE IF c = 0 THEN msg[1]
      ELSE to_string(c)

\* What one pass of the loop of String appends for node n.
StringSegment(n) ==
  LET c == CodeOf(n)
      msg == MessageOf(n)
      hasMsg == msg # NullStr /\ msg[1] # ""
  IN  IF c # 0 /\ hasMsg THEN to_string(c) \o ":" \o msg[1]
      ELSE IF c = 0 /\ ~hasMsg THEN "<EMPTY>"
      ELSE IF c = 0 THEN msg[1]
      ELSE to_string(c)

\* The loop of String from node p on, with s built so far; `visited`
\* counts the nodes whose Code()/Message() were read.
RECURSIVE StringLoop(_, _, _, _)
StringLoop(h, p, s, visited) ==
  LET s1 == s \o StringSegment(h[p])
      q == CauseOf(h[p])
  IN  IF q # Null THEN StringLoop(h, q, s1 \o ":", visited + 1)
      ELSE [str |-> s1, visited |-> visited + 1]

\* A String without the "<NIL>" mark of the null pointer.
StringRun_NoNilMark(h, err) ==
  IF err = Null THEN [str |-> "", visited |-> 0]
  ELSE StringLoop(h, err, "", 0)

StringRun(h, err) ==
  IF err = Null THEN [str |-> "<NIL>", visited |-> 0]
  ELSE StringLoop(h, err, "", 0)

String(h, err) == StringRun(h, err).str

\* A loop of Code that keeps walking and returns the innermost code.
RECURSIVE CodeLoop_Innermost(_, _, _)
CodeLoop_Innermost(h, p, defaultErrCode) ==
  IF p = Null THEN defaultErrCode
  ELSE LET deeper == CodeLoop_Innermost(h, CauseOf(h[p]), 0)
       IN  IF deeper # 0 THEN deeper
           ELSE IF CodeOf(h[p]) # 0 THEN CodeOf(h[p]) ELSE defaultErrCode

\* The for loop of Code, from node p on.
RECURSIVE CodeLoop(_, _, _)
CodeLoop(h, p, defaultErrCode) ==
  IF p = Null THEN defaultErrCode
  ELSE IF CodeOf(h[p]) # 0 THEN CodeOf(h[p])
       ELSE CodeLoop(h, CauseOf(h[p]), defaultErrCode)

\* A Code without the check for the null pointer.
Code_NoNullCheck(h, err, defaultErrCode) == CodeLoop(h, err, defaultErrCode)

\* A Code that looks at the outermost node only.
Code_TopOnly(h, err, defaultErrCode) ==
  IF err = Null THEN 0
  ELSE IF CodeOf(h[err]) # 0 THEN CodeOf(h[err]) ELSE defaultErrCode

Code(h, err, defaultErrCode) ==
  IF err = Null THEN 0 ELSE CodeLoop(h, err, defaultErrCode)

----------------------------------------------------------------------------
(* The state machine of inspection: a caller that received an error chain  *)
(* (or no error) and calls the inspection functions on it.  The chains are *)
(* those the construction functions build: a root made by New, E or a Wrap *)
(* of nullptr, wrapped again and again by Wrap / E(cause).                 *)

EmptyStore == [heap |-> <<>>, singleton |-> [c \in PlainClasses |-> Null]]

StoreOf(r) == [heap |-> r.heap, singleton |-> r.singleton]

\* Every store one more wrapping call makes of st, wrapping the Error err.
Wrapped(st, err) ==
  {StoreOf(Wrap(st, err, msg)) : msg \in RawMsgs}
  \cup {StoreOf(WrapFmt(st, err, f.fmt, f.args)) : f \in FmtCalls}
  \cup {StoreOf(WrapCode(st, err, code)) : code \in Codes}
  \cup {StoreOf(WrapCodeMsg(st, err, x[1], x[2])) : x \in Codes \X RawMsgs}
  \cup {StoreOf(WrapCodeFmt(st, err, x[1], x[2].fmt, x[2].args)) :
          x \in Codes \X FmtCalls}
  \cup {StoreOf(ECause(st, cls, err)) : cls \in PlainClasses}

\* Every store with one root node.
Roots ==
  {StoreOf(New(EmptyStore, msg)) : msg \in RawMsgs}
  \cup {StoreOf(NewFmt(EmptyStore, f.fmt, f.args)) : f \in FmtCalls}
  \cup {StoreOf(NewCode(EmptyStore, x[1], x[2])) : x \in Codes \X RawMsgs}
  \cup {StoreOf(NewCodeFmt(EmptyStore, x[1], x[2].fmt, x[2].args)) :
          x \in Codes \X FmtCalls}
  \cup {StoreOf(E(EmptyStore, cls)) : cls \in PlainClasses}
  \cup {StoreOf(EContext(EmptyStore, x[1], x[2])) :
          x \in ContextClasses \X Contexts}
  \cup Wrapped(EmptyStore, Null)

\* The stores holding one chain of exactly n nodes; node n is the outermost.
RECURSIVE Chains(_)
Chains(n) ==
  IF n = 0 THEN {EmptyStore}
  ELSE IF n = 1 THEN Roots
  ELSE UNION {Wrapped(st, n - 1) : st \in Chains(n - 1)}

\* The shapes asked for by As / Is.
QueryShapes == Classes

\* The error the caller holds: the outermost node of the chain, or nullptr.
Top == Len(heap)

InitInspect ==
  /\ \E n \in 0 .. MaxNodes : \E st \in Chains(n) :
       /\ heap = st.heap
       /\ singleton = st.singleton
  /\ last = NoLast
  /\ call = NoCall
  /\ tries = [o \in TryObjs |-> NoTry]
  /\ tryCall = NoTryCall
  /\ buffer = NoBuffer

\* The caller is between calls.
Idle == call.op = "none"

\* A call that takes the cause out of the node it was given.
Called_TakesCause(c) ==
  /\ Idle
  /\ call' = c
  /\ heap' = [n \in DOMAIN heap |->
               IF n = c.err THEN [heap[n] EXCEPT !.cause = Null] ELSE heap[n]]
  /\ UNCHANGED <<singleton, last, tries, tryCall, buffer>>

Called(c) ==
  /\ Idle
  /\ call' = c
  /\ UNCHANGED <<heap, singleton, last, tries, tryCall, buffer>>

DoAs ==
  \E err \in {Null, Top}, V \in QueryShapes :
    Called([NoCall EXCEPT !.op = "As", !.err = err, !.shape = V,
                          !.node = As(heap, V, err)])

DoIs ==
  \E err \in {Null, Top}, V \in QueryShapes :
    Called([NoCall EXCEPT !.op = "Is", !.err = err, !.shape = V,
                          !.flag = Is(heap, V, err)])

DoAsCode ==
  \E err \in {Null, Top}, code \in QueryCodes :
    Called([NoCall EXCEPT !.op = "AsCode", !.err = err, !.code = code,
                          !.node = AsCode(heap, code, err)])

DoIsCode ==
  \E err \in {Null, Top}, code \in QueryCodes :
    Called([NoCall EXCEPT !.op = "IsCode", !.err = err, !.code = code,
                          !.flag = IsCode(heap, code, err)])

DoString ==
  \E err \in {Null, Top} :
    LET r == StringRun(heap, err)
    IN  Called([NoCall EXCEPT !.op = "String", !.err = err, !.str = r.str,
                              !.visited = r.visited])

DoCode ==
  \E err \in {Null, Top}, d \in DefaultCodes :
    Called([NoCall EXCEPT !.op = "Code", !.err = err, !.code = d,
                          !.int = Code(heap, err, d)])

\* The caller has used the result and goes on.
Return ==
  /\ ~Idle
  /\ call' = NoCall
  /\ UNCHANGED <<heap, singleton, last, tries, tryCall, buffer>>

NextInspect ==
  \/ DoAs
  \/ DoIs
  \/ DoAsCode
  \/ DoIsCode
  \/ DoString
  \/ DoCode
  \/ Return

SpecInspect == InitInspect /\ [][NextInspect]_vars

----------------------------------------------------------------------------
(* Try<ValueType> (examples/simpletry/try.hpp): a std::pair<ValueType,     *)
(* gerr::Error> with ValueType = int, as SafeDiv of simpletry/main.cpp     *)
(* returns it.  An object is the record of the two members of the pair.    *)

\* The ints stored in a Try; int{} is the value-initialised one.
DefaultValue == 0
Values == {DefaultValue, 2}

Pair(first, second) == [live |-> TRUE, first |-> first, second |-> second]

\* A Try(err) that leaves the error member null.
TryFromError_DropsError(err) == Pair(DefaultValue, Null)

\* Try(Error&&) / Try(Error const&) / Try(std::shared_ptr<ErrType> ...)
TryFromError(err) == Pair(DefaultValue, err)

\* Try(ValueType const&) / Try(ValueType&&)
TryFromValue(val) == Pair(val, Null)

\* Try(Try&& src): both members are moved; a moved-from int keeps its
\* value, a moved-from shared_ptr is left null.
TryFromMove(src) ==
  [obj |-> Pair(src.first, src.second), src |-> [src EXCEPT !.second = Null]]

\* Try(Try& src)
TryFromCopy(src) == Pair(src.first, src.second)

IsSuccess(t) == t.second = Null
IsFailure(t) == t.second # Null
OperatorBool(t) == IsSuccess(t)
Value(t) == t.first
Error(t) == t.second

ClearValue(t) == [t EXCEPT !.first = DefaultValue]
ClearError(t) == [t EXCEPT !.second = Null]

\* An Assign(err) that keeps the value of a Try in Success.
AssignError_KeepsValue(t, err) == [t EXCEPT !.second = err]

\* Assign(Error&&) / Assign(Error const&) / Assign(std::shared_ptr<ErrType> ...)
AssignError(t, err) ==
  LET cleared == IF IsSuccess(t) THEN ClearValue(t) ELSE t
  IN  [cleared EXCEPT !.second = err]

\* An Assign(value) that keeps the error of a Try in Failure.
AssignValue_KeepsError(t, newValue) == [t EXCEPT !.first = newValue]

\* Assign(ValueType&&) / Assign(ValueType const&)
AssignValue(t, newValue) ==
  LET cleared == IF IsFailure(t) THEN ClearError(t) ELSE t
  IN  [cleared EXCEPT !.first = newValue]

\* An Assign(Try&&) that leaves the error with the source as well.
AssignMove_KeepsSource(t, src) ==
  [obj |-> [t EXCEPT !.first = src.first, !.second = src.second], src |-> src]

\* Assign(Try&& src): both members are move-assigned.
AssignMove(t, src) ==
  [ obj |-> [t EXCEPT !.first = src.first, !.second = src.second],
    src |-> [src EXCEPT !.second = Null] ]

\* Assign(Try const& src)
AssignCopy(t, src) == [t EXCEPT !.first = src.first, !.second = src.second]

\* The operator= overloads pass their argument to Assign.
OperatorAssignError(t, err) == AssignError(t, err)
OperatorAssignValue(t, arg) == AssignValue(t, arg)
OperatorAssignMove(t, other) == AssignMove(t, other)
OperatorAssignCopy(t, other) == AssignCopy(t, other)

\* swap(a, b): std::pair::swap exchanges both members.
Swap(a, b) == [a |-> b, b |-> a]

\* Value() = val and Error() = err through the non-const references.
ValueAssign(t, val) == [t EXCEPT !.first = val]
ErrorAssign(t, err) == [t EXCEPT !.second = err]

\* The errors a caller of Try holds: New("div 0") wrapped again and again.
RECURSIVE ErrorStock(_)
ErrorStock(n) ==
  IF n = 0 THEN EmptyStore
  ELSE IF n = 1 THEN StoreOf(New(EmptyStore, CStr("div 0")))
  ELSE StoreOf(WrapFmt(ErrorStock(n - 1), n - 1, <<"1/", "{}">>, << <<"d", 0>> >>))

InitTry ==
  /\ heap = ErrorStock(MaxNodes).heap
  /\ singleton = ErrorStock(MaxNodes).singleton
  /\ last = NoLast
  /\ call = NoCall
  /\ tries = [o \in TryObjs |-> NoTry]
  /\ tryCall = NoTryCall
  /\ buffer = NoBuffer

Live == {o \in TryObjs : tries[o].live}

\* The call c changed the objects to `objs`.
TryCalled(c, objs) ==
  /\ tries' = objs
  /\ tryCall' = [c EXCEPT !.was = tries[c.obj]]
  /\ UNCHANGED <<heap, singleton, last, call, buffer>>

TryCall(op, o) == [NoTryCall EXCEPT !.op = op, !.obj = o, !.src = o]

\* The two spellings of an assignment.
AssignForms == {"Assign", "operator="}

\* Constructors: the object o is declared (again) and initialised.
DoTryFromError ==
  \E o \in TryObjs, err \in Errors(heap) :
    TryCalled([TryCall("TryFromError", o) EXCEPT !.err = err],
              [tries EXCEPT ![o] = TryFromError(err)])

DoTryFromValue ==
  \E o \in TryObjs, val \in Values :
    TryCalled([TryCall("TryFromValue", o) EXCEPT !.val = val],
              [tries EXCEPT ![o] = TryFromValue(val)])

DoTryFromMove ==
  \E o \in TryObjs : \E src \in Live \ {o} :
    LET r == TryFromMove(tries[src])
    IN  TryCalled([TryCall("TryFromMove", o) EXCEPT !.src = src],
                  [tries EXCEPT ![o] = r.obj, ![src] = r.src])

DoTryFromCopy ==
  \E o \in TryObjs : \E src \in Live \ {o} :
    TryCalled([TryCall("TryFromCopy", o) EXCEPT !.src = src],
              [tries EXCEPT ![o] = TryFromCopy(tries[src])])

DoAssignError ==
  \E o \in Live, err \in Errors(heap), f \in AssignForms :
    TryCalled([TryCall(f \o "Error", o) EXCEPT !.err = err],
              [tries EXCEPT ![o] = IF f = "Assign"
                                   THEN AssignError(tries[o], err)
                                   ELSE OperatorAssignError(tries[o], err)])

DoAssignValue ==
  \E o \in Live, val \in Values, f \in AssignForms :
    TryCalled([TryCall(f \o "Value", o) EXCEPT !.val = val],
              [tries EXCEPT ![o] = IF f = "Assign"
                                   THEN AssignValue(tries[o], val)
                                   ELSE OperatorAssignValue(tries[o], val)])

\* Moving an object into itself leaves it as it is: the int is assigned to
\* itself and shared_ptr's move assignment is a swap with a temporary.
DoAssignMove ==
  \E o \in Live, src \in Live, f \in AssignForms :
    LET r == IF f = "Assign" THEN AssignMove(tries[o], tries[src])
                             ELSE OperatorAssignMove(tries[o], tries[src])
    IN  TryCalled([TryCall(f \o "Move", o) EXCEPT !.src = src],
                  IF src = o THEN tries
                  ELSE [tries EXCEPT ![o] = r.obj, ![src] = r.src])

DoAssignCopy ==
  \E o \in Live, src \in Live, f \in AssignForms :
    TryCalled([TryCall(f \o "Copy", o) EXCEPT !.src = src],
              [tries EXCEPT ![o] = IF f = "Assign"
                                   THEN AssignCopy(tries[o], tries[src])
                                   ELSE OperatorAssignCopy(tries[o], tries[src])])

DoClearValue ==
  \E o \in Live :
    TryCalled(TryCall("ClearValue", o), [tries EXCEPT ![o] = ClearValue(tries[o])])

DoClearError ==
  \E o \in Live :
    TryCalled(TryCall("ClearError", o), [tries EXCEPT ![o] = ClearError(tries[o])])

DoSwap ==
  \E o \in Live, src \in Live :
    LET r == Swap(tries[o], tries[src])
    IN  TryCalled([TryCall("swap", o) EXCEPT !.src = src],
                  [tries EXCEPT ![o] = r.a, ![src] = r.b])

DoValueAssign ==
  \E o \in Live, val \in Values :
    TryCalled([TryCall("ValueAssign", o) EXCEPT !.val = val],
              [tries EXCEPT ![o] = ValueAssign(tries[o], val)])

DoErrorAssign ==
  \E o \in Live, err \in Errors(heap) :
    TryCalled([TryCall("ErrorAssign", o) EXCEPT !.err = err],
              [tries EXCEPT ![o] = ErrorAssign(tries[o], err)])

\* A caller that constructs Try objects and assigns to them.
NextTryAssign ==
  \/ DoTryFromError
  \/ DoTryFromValue
  \/ DoTryFromMove
  \/ DoTryFromCopy
  \/ DoAssignError
  \/ DoAssignValue
  \/ DoAssignMove
  \/ DoAssignCopy

SpecTryAssign == InitTry /\ [][NextTryAssign]_vars

\* A caller that uses every public member of Try.
NextTry ==
  \/ DoTryFromError
  \/ DoTryFromValue
  \/ DoTryFromMove
  \/ DoTryFromCopy
  \/ DoAssignError
  \/ DoAssignValue
  \/ DoAssignMove
  \/ DoAssignCopy
  \/ DoClearValue
  \/ DoClearError
  \/ DoSwap
  \/ DoValueAssign
  \/ DoErrorAssign

SpecTry == InitTry /\ [][NextTry]_vars

----------------------------------------------------------------------------
(* Properties.  The statements below describe the chain of an Error on its *)
(* own terms: the sequence of nodes from the outermost one to the root.    *)

\* The nodes of the chain of p, outermost first (at most `fuel` of them).
RECURSIVE ChainSeq(_, _, _)
ChainSeq(h, p, fuel) ==
  IF p = Null \/ fuel = 0 THEN <<>>
  ELSE <<p>> \o ChainSeq(h, h[p].cause, fuel - 1)

ChainOf(h, err) == ChainSeq(h, err, Len(h))

\* The positions of the chain whose node satisfies P.
Matches(h, chain, P(_)) == {i \in 1 .. Len(chain) : P(h[chain[i]])}

\* The outermost node of the chain that satisfies P, or Null.
Outermost(h, chain, P(_)) ==
  LET m == Matches(h, chain, P)
  IN  IF m = {} THEN Null
      ELSE chain[CHOOSE i \in m : \A j \in m : i <= j]

CallChain == ChainOf(heap, call.err)

HasShape(n) == n.cls = call.shape
HasCode(n) == CodeOf(n) = call.code
HasNonZeroCode(n) == CodeOf(n) # 0

\* C1: As<V>(err) is the outermost node of the chain of err whose shape is
\* V, and absent when there is none or err is absent; Is<V>(err) is true
\* exactly when such a node exists.
C1_AsOutermostShape ==
  /\ call.op = "As" => call.node = Outermost(heap, CallChain, HasShape)
  /\ call.op = "Is" => call.flag = (Outermost(heap, CallChain, HasShape) # Null)

\* As was called on a chain holding two nodes of the shape asked for.
C1_Witness ==
  /\ call.op = "As"
  /\ Cardinality(Matches(heap, CallChain, HasShape)) >= 2
  /\ call.node = call.err

\* C2: IsCode(code, err) is true exactly when code is not 0 and a node of
\* the chain has that code; AsCode(0, err) is absent for every err.
C2_ZeroNeverMatches ==
  /\ call.op = "IsCode" =>
       call.flag = (call.code # 0 /\ Matches(heap, CallChain, HasCode) # {})
  /\ call.op = "AsCode" /\ call.code = 0 => call.node = Null

\* C3: for a non-zero code, AsCode(code, err) is the outermost node of the
\* chain whose Code() is that code (the node itself), absent when there is
\* none or err is absent.
C3_AsCodeOutermost ==
  call.op = "AsCode" /\ call.code # 0 =>
    call.node = Outermost(heap, CallChain, HasCode)

\* AsCode found the code below an outermost node that carries another code.
C3_Witness ==
  /\ call.op = "AsCode"
  /\ call.code # 0
  /\ call.err # Null
  /\ CodeOf(heap[call.err]) \notin {0, call.code}
  /\ call.node \notin {Null, call.err}

\* C4 as stated: Code(err, d) of a non-absent err is the code of the
\* outermost node with a non-zero code, and the result is d exactly when no
\* node of the chain has a non-zero code.
C4_DefaultExactlyWhenNoCode ==
  call.op = "Code" /\ call.err # Null =>
    LET n == Outermost(heap, CallChain, HasNonZeroCode)
    IN  /\ n # Null => call.int = CodeOf(heap[n])
        /\ (call.int = call.code) <=> (n = Null)

\* C4 as amended: Code(err, d) of a non-absent err is the code of the
\* outermost node with a non-zero code, and d when no node has one.
C4_CodeOutermostNonZero ==
  call.op = "Code" /\ call.err # Null =>
    LET n == Outermost(heap, CallChain, HasNonZeroCode)
    IN  /\ n # Null => call.int = CodeOf(heap[n])
        /\ n = Null => call.int = call.code

\* Code skipped an outermost node without a code and returned a deeper code.
C4_Witness ==
  /\ call.op = "Code"
  /\ call.err # Null
  /\ CodeOf(heap[call.err]) = 0
  /\ call.int \notin {0, call.code}

\* C5: Code(absent, d) is 0 whatever d is, and Code returns 0 only for an
\* absent err or a default of 0.
C5_CodeOfAbsent ==
  call.op = "Code" =>
    /\ call.err = Null => call.int = 0
    /\ call.int = 0 => call.err = Null \/ call.code = 0

\* Code was called on no error with a non-zero default, a chain existing.
C5_Witness ==
  /\ call.op = "Code"
  /\ call.err = Null
  /\ call.code # 0
  /\ heap # <<>>

\* The message of node n is present: not a null pointer and not empty.
MessagePresent(n) == MessageOf(n) \notin {NullStr, CStr("")}

\* The segment of a node as the rendering rule states it.
Segment(n) ==
  CASE CodeOf(n) # 0 /\ MessagePresent(n)
         -> to_string(CodeOf(n)) \o ":" \o MessageOf(n)[1]
    [] CodeOf(n) # 0 /\ ~MessagePresent(n) -> to_string(CodeOf(n))
    [] CodeOf(n) = 0 /\ MessagePresent(n) -> MessageOf(n)[1]
    [] OTHER -> "<EMPTY>"

\* The strings of a sequence joined by ':'.
RECURSIVE JoinColon(_)
JoinColon(strs) ==
  IF Len(strs) = 0 THEN ""
  ELSE IF Len(strs) = 1 THEN strs[1]
  ELSE strs[1] \o ":" \o JoinColon(Tail(strs))

\* C6: String of a non-absent err is the segments of the nodes of its
\* chain, outermost first, joined by ':'.
C6_StringJoinsSegments ==
  call.op = "String" /\ call.err # Null =>
    call.str = JoinColon([i \in 1 .. Len(CallChain) |-> Segment(heap[CallChain[i]])])

\* String rendered a chain of two nodes: a coded node with a message over
\* a node with neither code nor message.
C6_Witness ==
  /\ call.op = "String"
  /\ Len(CallChain) = 2
  /\ CodeOf(heap[CallChain[1]]) # 0
  /\ MessagePresent(heap[CallChain[1]])
  /\ CodeOf(heap[CallChain[2]]) = 0
  /\ ~MessagePresent(heap[CallChain[2]])

\* C7: String(absent) is exactly "<NIL>" and reads no node.
C7_StringOfAbsent ==
  call.op = "String" /\ call.err = Null =>
    call.str = "<NIL>" /\ call.visited = 0

\* String was called on no error while a chain exists.
C7_Witness ==
  /\ call.op = "String"
  /\ call.err = Null
  /\ heap # <<>>

\* C8: String of every non-absent Error that the construction functions
\* built is a non-empty string.
C8_StringNonEmpty ==
  \A err \in Handles(heap) :
    LET r == StringRun(heap, err)
    IN  r.str # "" /\ Len(r.str) > 0 /\ r.visited = Len(ChainOf(heap, err))

\* A node with neither code nor message was built, over another node.
C8_Witness ==
  \E err \in Handles(heap) :
    /\ CodeOf(heap[err]) = 0
    /\ ~MessagePresent(heap[err])
    /\ CauseOf(heap[err]) # Null
    /\ last.ret = err

WrapOps == {"Wrap", "WrapFmt", "WrapCode", "WrapCodeMsg", "WrapCodeFmt"}

\* What a step that is a Wrap call does.
C9_WrapStep ==
  last'.op \in WrapOps =>
    /\ last'.ret # Null
    /\ last'.ret \notin Errors(heap)
    /\ last'.ret \in Handles(heap')
    /\ CauseOf(heap'[last'.ret]) = last'.err
    /\ Len(ChainOf(heap', last'.ret)) = Len(ChainOf(heap, last'.err)) + 1
    /\ SubSeq(heap', 1, Len(heap)) = heap

\* C9: a Wrap call returns a node that did not exist before, whose Cause()
\* is the Error passed in, at the head of a chain one longer than that of
\* the Error passed in; wrapping no error gives a root node.  The nodes
\* that existed are left as they were.
C9_WrapFreshNode == [][C9_WrapStep]_vars

\* A Wrap call wrapped an existing node, after a Wrap call wrapped no error.
C9_Witness ==
  /\ last.op \in WrapOps
  /\ last.err # Null
  /\ heap[last.err].cls \in
       { "CodeSubError", "RawStrMessageSubError", "MessageSubError",
         "CodeRawStrMessageSubError", "CodeMessageSubError" }
  /\ heap[last.err].cause = Null

\* p reaches an absent cause in at most k steps along Cause().
RECURSIVE ReachesRoot(_, _, _)
ReachesRoot(h, p, k) ==
  IF p = Null THEN TRUE
  ELSE IF k = 0 THEN FALSE
  ELSE ReachesRoot(h, CauseOf(h[p]), k - 1)

C11_NodesImmutable ==
  [][\A n \in Handles(heap) :
       /\ heap'[n] = heap[n]
       /\ Context(heap'[n]) = Context(heap[n])]_vars

\* The message template of a contextual variant with the fields of c put in.
C12_Rendered(cls, c) ==
  (IF cls = "ErrLERandNum1" THEN "R" ELSE "r")
    \o "andom num is illegal, rand val1: " \o to_string(c.randNum1)
    \o ", rand val2: " \o to_string(c.randNum2)

\* C12: E(c) of a contextual variant, with c passed by const reference or
\* as an rvalue, returns a node of that variant whose Context() equals c
\* field for field and whose message is the template rendered from c.
C12_ContextRoundTrip ==
  last.op \in {"EContext", "EContextMove"} =>
    /\ last.ret \in Handles(heap)
    /\ heap[last.ret].cls \in ContextClasses
    /\ Context(heap[last.ret]).randNum1 = last.context.randNum1
    /\ Context(heap[last.ret]).randNum2 = last.context.randNum2
    /\ MessageOf(heap[last.ret])
         = CStr(C12_Rendered(heap[last.ret].cls, last.context))

\* E(c) was called with an rvalue after it was called with a reference,
\* with two different contexts.
C12_Witness ==
  /\ last.op = "EContextMove"
  /\ last.ret = 2
  /\ heap[1].cls \in ContextClasses
  /\ Context(heap[2]) = [randNum1 |-> 3, randNum2 |-> 0]
  /\ Context(heap[1]) = [randNum1 |-> 1, randNum2 |-> 2]
  /\ MessageOf(heap[2]) = CStr("random num is illegal, rand val1: 3, rand val2: 0")

\* What a step does to the singletons, and what a step that is a call of
\* E(), E(cause) or E(context) returns.
C13_FactoryStep ==
  /\ \A cls \in PlainClasses :
       singleton[cls] # Null => singleton'[cls] = singleton[cls]
  /\ last'.op = "E" =>
       /\ last'.ret \in Handles(heap')
       /\ heap'[last'.ret].cls \in PlainClasses
       /\ singleton'[heap'[last'.ret].cls] = last'.ret
       /\ CauseOf(heap'[last'.ret]) = Null
       /\ last'.ret \in Handles(heap) => heap' = heap
       /\ \A cls \in PlainClasses :
            last'.ret \notin Handles(heap) /\ heap'[last'.ret].cls = cls
              => singleton[cls] = Null
  /\ last'.op \in {"ECause", "EContext", "EContextMove"} =>
       /\ last'.ret \in Handles(heap') \ Handles(heap)
       /\ \A cls \in PlainClasses : singleton'[cls] # last'.ret
       /\ SubSeq(heap', 1, Len(heap)) = heap
  /\ last'.op \in {"EContext", "EContextMove"} =>
       Context(heap'[last'.ret]) = last'.context

\* C13: E() of a plain or coded variant returns the same node, with an
\* absent cause, on every call, whatever E(cause) calls come in between;
\* every E(cause) and E(context) call returns a node that did not exist
\* before and is not the singleton; a contextual node reports the context
\* it was built with and leaves the nodes built before as they were.
C13_SingletonAndFresh == [][C13_FactoryStep]_vars

\* E() returned its singleton again after an E(cause) call of the same
\* class had made a node of its own.
C13_Witness ==
  /\ last.op = "E"
  /\ Len(heap) = 2
  /\ last.ret = 1
  /\ singleton[heap[1].cls] = 1
  /\ heap[2].cls = heap[1].cls
  /\ CauseOf(heap[2]) = 1

\* Two contextual nodes of one class built with different contexts.
C13_WitnessContexts ==
  /\ last.op = "EContext"
  /\ Len(heap) = 2
  /\ heap[1].cls = heap[2].cls
  /\ Context(heap[1]) # Context(heap[2])

\* C14: E(cause, context) of a contextual variant returns a node whose
\* Cause() is the cause passed in and whose Context() equals the context
\* passed in: the context is neither dropped nor value-initialised.
C14_CauseAndContext ==
  last.op = "ECauseContext" =>
    /\ last.ret \in Handles(heap)
    /\ heap[last.ret].cls \in ContextClasses
    /\ CauseOf(heap[last.ret]) = last.err
    /\ Context(heap[last.ret]) = last.context

\* The live Try objects.
LiveTries == {tries[o] : o \in Live}

\* C15: of IsSuccess() and IsFailure() exactly one holds, and the bool
\* conversion equals IsSuccess(); a Try made from a value v is in Success
\* with Value() = v and an absent Error(); a Try made from a non-absent
\* Error e is in Failure with Error() identical to e.
C15_TryStates ==
  /\ \A t \in LiveTries :
       /\ IsSuccess(t) # IsFailure(t)
       /\ OperatorBool(t) = IsSuccess(t)
  /\ tryCall.op = "TryFromValue" =>
       /\ IsSuccess(tries[tryCall.obj])
       /\ Value(tries[tryCall.obj]) = tryCall.val
       /\ Error(tries[tryCall.obj]) = Null
  /\ tryCall.op = "TryFromError" /\ tryCall.err # Null =>
       /\ IsFailure(tries[tryCall.obj])
       /\ ~OperatorBool(tries[tryCall.obj])
       /\ Error(tries[tryCall.obj]) = tryCall.err

\* A Try was made from an Error while another, made from a non-default
\* value, is alive.
C15_Witness ==
  /\ tryCall.op = "TryFromError"
  /\ tryCall.err = 2
  /\ tryCall.obj = "u"
  /\ IsFailure(tries["u"])
  /\ tries["t"].live
  /\ IsSuccess(tries["t"])
  /\ Value(tries["t"]) = 2

\* C16: making a Try from an absent Error never gives a Try that reports
\* IsSuccess() with the default value.
C16_AbsentErrorNotSuccess ==
  tryCall.op = "TryFromError" /\ tryCall.err = Null =>
    ~(/\ IsSuccess(tries[tryCall.obj])
      /\ Value(tries[tryCall.obj]) = DefaultValue)

\* C17: after the constructors and any sequence of Assign / operator=
\* calls (with values, errors and other Try objects, copied or moved), a
\* Try in Failure holds the default value, which Value() returns.
C17_FailureHasDefaultValue ==
  \A t \in LiveTries : IsFailure(t) => Value(t) = DefaultValue

\* An error was assigned to a Try that held a non-default value.
C17_Witness ==
  /\ tryCall.op \in {"AssignError", "operator=Error"}
  /\ tryCall.err # Null
  /\ IsSuccess(tryCall.was)
  /\ Value(tryCall.was) # DefaultValue
  /\ IsFailure(tries[tryCall.obj])

\* C18: assigning a non-absent Error e to a Try in any state leaves it with
\* IsSuccess() false, IsFailure() true, Error() identical to e and Value()
\* the default.
C18_AssignErrorGivesFailure ==
  tryCall.op \in {"AssignError", "operator=Error"} /\ tryCall.err # Null =>
    /\ ~IsSuccess(tries[tryCall.obj])
    /\ IsFailure(tries[tryCall.obj])
    /\ Error(tries[tryCall.obj]) = tryCall.err
    /\ Value(tries[tryCall.obj]) = DefaultValue

\* C19: assigning a value v to a Try in Failure clears the error, and to a
\* Try in Success replaces the value: either way IsSuccess() holds,
\* Error() is absent and Value() = v.
C19_AssignValueGivesSuccess ==
  tryCall.op \in {"AssignValue", "operator=Value"} =>
    /\ IsSuccess(tries[tryCall.obj])
    /\ ~IsFailure(tries[tryCall.obj])
    /\ Error(tries[tryCall.obj]) = Null
    /\ Value(tries[tryCall.obj]) = tryCall.val

\* A non-default value was assigned to a Try in Failure.
C19_Witness ==
  /\ tryCall.op \in {"AssignValue", "operator=Value"}
  /\ tryCall.val # DefaultValue
  /\ IsFailure(tryCall.was)
  /\ IsSuccess(tries[tryCall.obj])

\* C20: a Try changes by replacement of the whole state only: no public
\* operation changes one member while the other stays populated, so no
\* Try holds a non-default value and a non-absent error at once.
C20_NeverValueAndError ==
  \A t \in LiveTries : ~(Value(t) # DefaultValue /\ Error(t) # Null)

\* C21: every inspection call ends with its documented result on every
\* input.  The chain of the Error passed in ends after at most as many
\* Cause() steps as there are nodes, so each loop ends; on no error the
\* results are absent / false / 0 / "<NIL>" and no node is read; on a chain
\* As and AsCode return a node of the chain or absent, Code a code of the
\* chain or the default, and String a non-empty text after reading each
\* node of the chain once.
C21_InspectionTotal ==
  /\ ReachesRoot(heap, call.err, Len(heap))
  /\ call.op \in {"As", "AsCode"} =>
       /\ call.node \in {Null} \cup {CallChain[i] : i \in 1 .. Len(CallChain)}
       /\ call.err = Null => call.node = Null
  /\ call.op \in {"Is", "IsCode"} =>
       /\ call.flag \in BOOLEAN
       /\ call.err = Null => call.flag = FALSE
  /\ call.op = "Code" =>
       /\ call.err # Null =>
            call.int \in {call.code}
              \cup {CodeOf(heap[CallChain[i]]) : i \in 1 .. Len(CallChain)}
       /\ call.err = Null => call.int = 0
  /\ call.op = "String" =>
       /\ call.str # ""
       /\ call.visited = Len(CallChain)
       /\ call.err = Null => call.str = "<NIL>" /\ call.visited = 0

\* Is was called on no error, and on a chain of two nodes.
C21_Witness ==
  /\ call.op = "Is"
  /\ call.err = Null
  /\ call.flag = FALSE
  /\ Len(heap) = 2
  /\ CauseOf(heap[2]) = 1

\* C22: String composes with Wrap.  For a non-empty message m and a
\* non-absent e, String(Wrap(e, m)) is m, ':' and String(e), and
\* String(Wrap(e, c, m)) with a non-zero c is the decimal c, ':', m, ':'
\* and String(e); String(Wrap(absent, m)) is m alone, without "<NIL>".
C22_StringOfWrap ==
  LET n == heap[last.ret]
      m == MessageOf(n)[1]
  IN  /\ last.op \in {"Wrap", "WrapFmt"} /\ MessagePresent(n) =>
           String(heap, last.ret)
             = IF last.err = Null THEN m
               ELSE m \o ":" \o String(heap, last.err)
      /\ /\ last.op \in {"WrapCodeMsg", "WrapCodeFmt"}
         /\ MessagePresent(n)
         /\ CodeOf(n) # 0
         /\ last.err # Null
         => String(heap, last.ret)
              = to_string(CodeOf(n)) \o ":" \o m \o ":" \o String(heap, last.err)

\* Wrap(e, c, m) with a code and a message wrapped a node that has a
\* message of its own.
C22_Witness ==
  /\ last.op = "WrapCodeMsg"
  /\ last.err # Null
  /\ MessagePresent(heap[last.err])
  /\ CodeOf(heap[last.ret]) = -12
  /\ MessageOf(heap[last.ret]) = CStr("fail")
  /\ String(heap, last.ret) = "-12:fail:" \o String(heap, last.err)

\* C23: the outermost code wins.  After a Wrap call that gave the new node
\* a non-zero code c, Code of the result is c for every default d, whatever
\* codes the wrapped Error carries; after a Wrap call without a code or
\* with code 0, Code of the result is Code of the wrapped Error, and d when
\* no error was wrapped.
C23_OutermostCodeWins ==
  last.op \in WrapOps =>
    \A d \in DefaultCodes :
      LET c == CodeOf(heap[last.ret])
      IN  /\ c # 0 => Code(heap, last.ret, d) = c
          /\ c = 0 /\ last.err # Null =>
               Code(heap, last.ret, d) = Code(heap, last.err, d)
          /\ c = 0 /\ last.err = Null => Code(heap, last.ret, d) = d

\* Wrap(e, c) put a code over an Error that carries another non-zero code.
C23_Witness ==
  /\ last.op = "WrapCode"
  /\ last.err # Null
  /\ CodeOf(heap[last.ret]) = -12
  /\ Code(heap, last.err, -1) = ErrArgumentNegCode
  /\ Code(heap, last.ret, -1) = -12

\* C24: the anomalous node, with code zero and an absent or empty message,
\* is not produced by construction: no call of New, Wrap or an E factory
\* returns a node that String renders as "<EMPTY>".
C24_NoEmptyNode ==
  last.ret # Null =>
    /\ ~(CodeOf(heap[last.ret]) = 0 /\ ~MessagePresent(heap[last.ret]))
    /\ StringSegment(heap[last.ret]) # "<EMPTY>"

\* What an inspection step leaves alone, and what it returns.
C25_InspectionStep ==
  /\ heap' = heap
  /\ \A n \in Handles(heap) :
       /\ CodeOf(heap'[n]) = CodeOf(heap[n])
       /\ MessageOf(heap'[n]) = MessageOf(heap[n])
       /\ CauseOf(heap'[n]) = CauseOf(heap[n])
  /\ singleton' = singleton
  /\ call'.op # "none" => call'.err \in {Null, Len(heap)}
  /\ call'.op = "As" => call'.node = As(heap', call'.shape, call'.err)
  /\ call'.op = "Is" => call'.flag = Is(heap', call'.shape, call'.err)
  /\ call'.op = "AsCode" => call'.node = AsCode(heap', call'.code, call'.err)
  /\ call'.op = "IsCode" => call'.flag = IsCode(heap', call'.code, call'.err)
  /\ call'.op = "Code" => call'.int = Code(heap', call'.err, call'.code)
  /\ call'.op = "String" => call'.str = String(heap', call'.err)

C26_MessageCaptured ==
  [][\A n \in Handles(heap) :
       /\ MessageOf(heap'[n]) = MessageOf(heap[n])
       /\ String(heap', n) = String(heap, n)]_vars

\* C27: assigning an absent Error to a Try never gives a Failure: a Try in
\* Success is left in Success with the value reset to the default, and a
\* Try in Failure is left in Success with the default value, its error
\* discarded; IsSuccess() holds afterwards in both cases.
C27_AssignAbsentError ==
  tryCall.op \in {"AssignError", "operator=Error"} /\ tryCall.err = Null =>
    /\ IsSuccess(tries[tryCall.obj])
    /\ ~IsFailure(tries[tryCall.obj])
    /\ Error(tries[tryCall.obj]) = Null
    /\ Value(tries[tryCall.obj]) = DefaultValue

\* What a step that copies or moves a Try into the object o does.
C28_TransferStep ==
  LET o == tryCall'.obj
      s == tryCall'.src
  IN  /\ tryCall'.op \in {"TryFromCopy", "AssignCopy", "operator=Copy"} =>
           /\ tries'[s] = tries[s]
           /\ Value(tries'[o]) = Value(tries[s])
           /\ Error(tries'[o]) = Error(tries[s])
      /\ tryCall'.op \in {"TryFromMove", "AssignMove", "operator=Move"}
           /\ s # o /\ IsFailure(tries[s]) =>
           /\ IsFailure(tries'[o])
           /\ Error(tries'[o]) = Error(tries[s])
           /\ Error(tries'[s]) = Null
           /\ IsSuccess(tries'[s])
           /\ Value(tries'[s]) = Value(tries[s])

\* C28: copy construction and copy assignment of a Try leave the source as
\* it was and make both members of the destination equal to the source's;
\* move construction and move assignment from a source in Failure(e) give
\* e to the destination and leave the source with an absent error, so that
\* the source reports IsSuccess() with the value it had.
C28_CopyAndMove == [][C28_TransferStep]_vars

\* A Try in Failure was move-assigned to another one that held a value;
\* the source now reports Success with the default value.
C28_Witness ==
  /\ tryCall.op = "AssignMove"
  /\ tryCall.src # tryCall.obj
  /\ IsSuccess(tryCall.was)
  /\ Value(tryCall.was) # DefaultValue
  /\ IsFailure(tries[tryCall.obj])
  /\ IsSuccess(tries[tryCall.src])
  /\ Value(tries[tryCall.src]) = DefaultValue

====
